---- MODULE Spec2Model ----
(***************************************************************************)
(* Othello with a minimax/alpha-beta player, modelled from                 *)
(* src/Assignment_1/edap01_assignment01.py.                                *)
(*                                                                         *)
(* A board is a function row -> col -> cell with cells ".", "B", "W".      *)
(* Python's None is the empty tuple (falsy, like None, in `if move:`).     *)
(***************************************************************************)
EXTENDS Integers, Sequences, FiniteSets, TLC

\* board, current_player    the locals of play_game (lines 292, 315)
\* player_types, eval_fns    player1_type/player2_type and eval_fn_p1/eval_fn_p2
\* pc                        where play_game is: "turn" at the top of the loop,
\*                           "input" in the loop of line 357, "over" after break
\* move                      the local move of play_game
\* inp                       the last line read by input() at line 361, split
\* applied                   history: the number of moves applied to board
\* search                    history: the last call of minimax and its result
VARIABLES board, current_player, player_types, eval_fns, pc, move, inp,
          applied, search

vars == <<board, current_player, player_types, eval_fns, pc, move, inp,
          applied, search>>

\* ------------------------------------------------------------------------
\* Program constants
\* ------------------------------------------------------------------------
N == 8

None == <<>>

Rows == 0..(N - 1)

directions == << <<-1, 0>>, <<1, 0>>, <<0, -1>>, <<0, 1>>,
                 <<-1, -1>>, <<-1, 1>>, <<1, -1>>, <<1, 1>> >>

\* ------------------------------------------------------------------------
\* Bounds of the exploration
\* ------------------------------------------------------------------------
\* plies the driver is followed from the opening position
MaxPlies == 2

\* reads of the clock after which a deadline may first be found exceeded
MaxClock == 3

\* every Stride-th position of the recorded game is searched
Stride == 20

\* ------------------------------------------------------------------------
\* Board model and rule engine
\* ------------------------------------------------------------------------
\* the starting position with the colours of the four disks exchanged
initialize_board_swapped ==
    [r \in Rows |-> [c \in Rows |->
        IF (r = 3 /\ c = 3) \/ (r = 4 /\ c = 4) THEN "B"
        ELSE IF (r = 3 /\ c = 4) \/ (r = 4 /\ c = 3) THEN "W"
        ELSE "."]]

initialize_board ==
    [r \in Rows |-> [c \in Rows |->
        IF (r = 3 /\ c = 3) \/ (r = 4 /\ c = 4) THEN "W"
        ELSE IF (r = 3 /\ c = 4) \/ (r = 4 /\ c = 3) THEN "B"
        ELSE "."]]

Opponent(player) == IF player = "W" THEN "B" ELSE "W"

OnBoard(r, c) == 0 <= r /\ r < N /\ 0 <= c /\ c < N

\* the while loop of is_valid_move for one direction: TRUE when the walk
\* returns True, FALSE when it breaks or runs off the board
RECURSIVE ScanDirection(_, _, _, _, _, _, _)
ScanDirection(b, r, c, dr, dc, player, found_opponent) ==
    IF ~OnBoard(r, c) THEN FALSE
    ELSE IF b[r][c] = Opponent(player)
         THEN ScanDirection(b, r + dr, c + dc, dr, dc, player, TRUE)
    ELSE IF b[r][c] = player THEN found_opponent
    ELSE FALSE

\* is_valid_move without the test of line 39 for an occupied cell
is_valid_move_any_cell(b, row, col, player) ==
    \E i \in 1..Len(directions) :
        ScanDirection(b, row + directions[i][1], col + directions[i][2],
                      directions[i][1], directions[i][2], player, FALSE)

is_valid_move(b, row, col, player) ==
    IF b[row][col] # "." THEN FALSE
    ELSE \E i \in 1..Len(directions) :
            ScanDirection(b, row + directions[i][1], col + directions[i][2],
                          directions[i][1], directions[i][2], player, FALSE)

\* the cells in the order the comprehension of get_valid_moves visits them
AllCells == [i \in 1..(N * N) |-> <<(i - 1) \div N, (i - 1) % N>>]

get_valid_moves(b, player) ==
    SelectSeq(AllCells, LAMBDA m : is_valid_move(b, m[1], m[2], player))

\* the collecting while loop of apply_move: the run of opponent disks and
\* the cell the walk stopped at
RECURSIVE CollectRun(_, _, _, _, _, _, _)
CollectRun(b, r, c, dr, dc, opponent, disks_to_flip) ==
    IF OnBoard(r, c) /\ b[r][c] = opponent
    THEN CollectRun(b, r + dr, c + dc, dr, dc, opponent,
                    Append(disks_to_flip, <<r, c>>))
    ELSE [r |-> r, c |-> c, disks_to_flip |-> disks_to_flip]

RECURSIVE FlipDisks(_, _, _, _)
FlipDisks(b, disks_to_flip, i, player) ==
    IF i > Len(disks_to_flip) THEN b
    ELSE FlipDisks([b EXCEPT ![disks_to_flip[i][1]][disks_to_flip[i][2]] = player],
                   disks_to_flip, i + 1, player)

FlipDirection(b, row, col, dr, dc, player) ==
    LET run == CollectRun(b, row + dr, col + dc, dr, dc, Opponent(player), <<>>)
    IN  IF OnBoard(run.r, run.c) /\ b[run.r][run.c] = player
        THEN FlipDisks(b, run.disks_to_flip, 1, player)
        ELSE b

RECURSIVE FlipDirections(_, _, _, _, _)
FlipDirections(b, row, col, player, i) ==
    IF i > Len(directions) THEN b
    ELSE FlipDirections(
             FlipDirection(b, row, col, directions[i][1], directions[i][2], player),
             row, col, player, i + 1)

\* apply_move without the placement of line 84
PlaceDisk_missing(b, row, col, player) == b

PlaceDisk(b, row, col, player) == [b EXCEPT ![row][col] = player]

\* the board object after apply_move has mutated it
apply_move(b, row, col, player) ==
    FlipDirections(PlaceDisk(b, row, col, player), row, col, player, 1)

Count(b, player) ==
    Cardinality({m \in Rows \X Rows : b[m[1]][m[2]] = player})

\* ------------------------------------------------------------------------
\* Evaluator set
\* ------------------------------------------------------------------------
Corners == {<<0, 0>>, <<0, 7>>, <<7, 0>>, <<7, 7>>}

CornerCount(b, player) == Cardinality({m \in Corners : b[m[1]][m[2]] = player})

evaluate_piece_count(b, player) ==
    Count(b, player) - Count(b, Opponent(player))

evaluate_advanced(b, player) ==
    LET opponent == Opponent(player)
        piece_score == Count(b, player) - Count(b, opponent)
        corner_score == (CornerCount(b, player) - CornerCount(b, opponent)) * 5
        mobility_score == (Len(get_valid_moves(b, player))
                           - Len(get_valid_moves(b, opponent))) * 2
    IN  piece_score + corner_score + mobility_score

EvalFuns == {"evaluate_piece_count", "evaluate_advanced"}

\* eval_fn_p1 and eval_fn_p2 of a side that is not a minimax player
NoEval == "None"

\* the call eval_fun(board, player) of the injected evaluator
Eval(eval_fun, b, player) ==
    IF eval_fun = "evaluate_advanced" THEN evaluate_advanced(b, player)
    ELSE evaluate_piece_count(b, player)

\* ------------------------------------------------------------------------
\* Search engine (minimax)
\* ------------------------------------------------------------------------
\* math.inf: every evaluation lies strictly between -Inf and Inf
Inf == 1000

Max(a, b) == IF a >= b THEN a ELSE b

Min(a, b) == IF a <= b THEN a ELSE b

\* The wall clock.  clock is the number of reads of time.time() that still
\* find the deadline not exceeded; once a read finds it exceeded every later
\* read does too.  Never is the clock of a deadline that is never exceeded.
Never == -1

Expired(clock) == clock = 0

Tick(clock) == IF clock > 0 THEN clock - 1 ELSE clock

\* Board objects live in a heap (a sequence of boards, a reference is an
\* index).  copy.deepcopy allocates a new object; the object of a finished
\* iteration is dropped.
\* new_board = board: the same object instead of a copy
deepcopy_alias(heap, ref) == [heap |-> heap, ref |-> ref]

deepcopy(heap, ref) == [heap |-> Append(heap, heap[ref]), ref |-> Len(heap) + 1]

Release(heap, n) == SubSeq(heap, 1, n)

\* line 163, evaluated left to right: the clock is read only when the first
\* two operands are false
IsCutoff(depth, valid_moves, clock) ==
    depth = 0 \/ valid_moves = <<>> \/ Expired(clock)

ReadsClockAtEntry(depth, valid_moves) == depth # 0 /\ valid_moves # <<>>

\* line 183 with >= for >: the last best move instead of the first
ImprovesMax_or_equal(eval_score, max_eval) == eval_score >= max_eval

\* lines 183 and 206
ImprovesMax(eval_score, max_eval) == eval_score > max_eval

ImprovesMin(eval_score, min_eval) == eval_score < min_eval

\* lines 187 and 210, left operand
Pruned(alpha, beta) == beta <= alpha

\* line 160 without the choice of the opponent at a minimizing node
SideToMove_always_player(maximizing_player, player) == player

\* the side whose moves a node generates (line 160)
SideToMove(maximizing_player, player) ==
    IF maximizing_player THEN player ELSE Opponent(player)

\* line 194 placing the disk of player instead of opponent
Mover_always_player(maximizing_player, player) == player

\* the side whose disk a branch places (lines 171 and 194)
Mover(maximizing_player, player) ==
    IF maximizing_player THEN player ELSE Opponent(player)

\* The result of a call: score and move are the returned pair; heap and clock
\* are the heap and the clock when the call returns.  Two history fields
\* record what the call did: legal is TRUE when every apply_move of the call
\* and its descendants placed a valid move of the side placing it, intact is
\* TRUE when the board of every call was, after each of its children
\* returned, the board it was entered with.
RECURSIVE minimax(_, _, _, _, _, _, _, _, _)
RECURSIVE SearchLoop(_, _, _)

minimax(heap, ref, depth, alpha, beta, maximizing_player, player, clock, eval_fun) ==
    LET b == heap[ref]
        valid_moves == get_valid_moves(b, SideToMove(maximizing_player, player))
        reads == ReadsClockAtEntry(depth, valid_moves)
    IN  IF IsCutoff(depth, valid_moves, clock)
        THEN [score |-> Eval(eval_fun, b, player), move |-> None,
              heap |-> heap, clock |-> IF reads THEN Tick(clock) ELSE clock,
              legal |-> TRUE, intact |-> TRUE]
        ELSE SearchLoop(
                [ref |-> ref, depth |-> depth, player |-> player,
                 maximizing_player |-> maximizing_player,
                 eval_fun |-> eval_fun, valid_moves |-> valid_moves,
                 entry |-> b],
                [heap |-> heap, alpha |-> alpha, beta |-> beta,
                 best_eval |-> IF maximizing_player THEN -Inf ELSE Inf,
                 best_move |-> None, clock |-> Tick(clock),
                 legal |-> TRUE, intact |-> TRUE],
                1)

\* the for loops of lines 169-188 and 192-211; cx holds what the loop reads,
\* st what it updates (best_eval is max_eval or min_eval)
SearchLoop(cx, st, i) ==
    IF i > Len(cx.valid_moves)
    THEN [score |-> st.best_eval, move |-> st.best_move, heap |-> st.heap,
          clock |-> st.clock, legal |-> st.legal, intact |-> st.intact]
    ELSE
    LET mv == cx.valid_moves[i]
        mover == Mover(cx.maximizing_player, cx.player)
        new_board == deepcopy(st.heap, cx.ref)
        placed_legally == is_valid_move(new_board.heap[new_board.ref],
                                        mv[1], mv[2], mover)
        applied_heap == [new_board.heap EXCEPT ![new_board.ref] =
                            apply_move(@, mv[1], mv[2], mover)]
        child == minimax(applied_heap, new_board.ref, cx.depth - 1,
                         st.alpha, st.beta, ~cx.maximizing_player,
                         cx.player, st.clock, cx.eval_fun)
        eval_score == child.score
        improves == IF cx.maximizing_player
                    THEN ImprovesMax(eval_score, st.best_eval)
                    ELSE ImprovesMin(eval_score, st.best_eval)
        alpha1 == IF cx.maximizing_player THEN Max(st.alpha, eval_score)
                  ELSE st.alpha
        beta1 == IF cx.maximizing_player THEN st.beta
                 ELSE Min(st.beta, eval_score)
        pruned == Pruned(alpha1, beta1)
        expired == ~pruned /\ Expired(child.clock)
        heap1 == Release(child.heap, Len(st.heap))
        st1 == [heap |-> heap1, alpha |-> alpha1, beta |-> beta1,
                best_eval |-> IF improves THEN eval_score ELSE st.best_eval,
                best_move |-> IF improves THEN mv ELSE st.best_move,
                clock |-> IF pruned THEN child.clock ELSE Tick(child.clock),
                legal |-> st.legal /\ placed_legally /\ child.legal,
                intact |-> st.intact /\ child.intact /\ heap1[cx.ref] = cx.entry]
    IN  IF pruned \/ expired
        THEN [score |-> st1.best_eval, move |-> st1.best_move,
              heap |-> st1.heap, clock |-> st1.clock,
              legal |-> st1.legal, intact |-> st1.intact]
        ELSE SearchLoop(cx, st1, i + 1)

\* depth of the search started by computer_move: the program searches to
\* depth 10 (line 233), the model to this smaller depth
SearchDepth == 2

\* computer_move on the driver's board object; the result keeps the whole
\* record of the root call
computer_move(b, player, clock, eval_fun) ==
    minimax(<<b>>, 1, SearchDepth, -Inf, Inf, TRUE, player, clock, eval_fun)

\* ------------------------------------------------------------------------
\* A game played by the program (random players, seed 116), used to start
\* the driver in positions the program reaches late in a game
\* ------------------------------------------------------------------------
GameLine ==
    << <<4, 5>>, <<3, 5>>, <<2, 2>>, <<5, 6>>, <<2, 5>>, <<4, 2>>, <<5, 3>>,
       <<1, 5>>, <<4, 1>>, <<3, 2>>, <<2, 6>>, <<5, 0>>, <<5, 5>>, <<1, 2>>,
       <<2, 4>>, <<3, 6>>, <<2, 1>>, <<6, 6>>, <<2, 3>>, <<3, 7>>, <<0, 1>>,
       <<6, 2>>, <<6, 4>>, <<1, 3>>, <<7, 1>>, <<5, 4>>, <<4, 0>>, <<1, 4>>,
       <<6, 5>>, <<6, 3>>, <<3, 1>>, <<1, 1>>, <<7, 5>>, <<7, 3>>, <<0, 4>>,
       <<6, 1>>, <<1, 7>>, <<5, 1>>, <<4, 7>>, <<3, 0>>, <<6, 7>>, <<0, 3>>,
       <<2, 0>>, <<5, 7>>, <<7, 4>>, <<0, 5>>, <<6, 0>>, <<7, 6>>, <<7, 7>>,
       <<1, 6>>, <<4, 6>>, <<5, 2>>, <<1, 0>>, <<7, 0>>, <<2, 7>>, <<0, 0>>,
       <<7, 2>>, <<0, 6>>, <<0, 2>> >>

\* the driver's loop run over the first n moves of a line: the side to move
\* passes when it has no move, otherwise the next move of the line is applied
\* (legal is FALSE if the line holds a move the driver would not accept)
RECURSIVE Replay(_, _, _, _, _)
Replay(b, player, line, i, n) ==
    IF i > n THEN [board |-> b, current_player |-> player, legal |-> TRUE]
    ELSE LET side == IF get_valid_moves(b, player) = <<>>
                     THEN Opponent(player) ELSE player
         IN  IF ~is_valid_move(b, line[i][1], line[i][2], side)
             THEN [board |-> b, current_player |-> player, legal |-> FALSE]
             ELSE Replay(apply_move(b, line[i][1], line[i][2], side),
                         Opponent(side), line, i + 1, n)

TailFrom == Len(GameLine) - (MaxPlies + 1)

EndgameStart == Replay(initialize_board, "B", GameLine, 1, TailFrom)

\* the driver is followed through the opening and through the endgame
Explored(n) == n < MaxPlies \/ n >= TailFrom

\* ------------------------------------------------------------------------
\* Game driver (play_game)
\* ------------------------------------------------------------------------
PlayerTypes == {"human", "minimax", "random"}

TypeOf(player) == IF player = "B" THEN player_types[1] ELSE player_types[2]

EvalOf(player) == IF player = "B" THEN eval_fns[1] ELSE eval_fns[2]

\* the record of a call of minimax: its arguments, the board object before
\* and after the call and the result of the call
SearchRecord(depth, alpha, beta, maximizing_player, player, clock, eval_fun, before, res) ==
    [called |-> TRUE, depth |-> depth, alpha |-> alpha, beta |-> beta,
     maximizing_player |-> maximizing_player, player |-> player,
     clock |-> clock, eval_fun |-> eval_fun, before |-> before,
     after |-> res.heap[1], score |-> res.score, move |-> res.move,
     legal |-> res.legal, intact |-> res.intact]

NoSearch ==
    [called |-> FALSE, depth |-> 0, alpha |-> -Inf, beta |-> Inf,
     maximizing_player |-> TRUE, player |-> "B", clock |-> Never,
     eval_fun |-> "evaluate_piece_count", before |-> initialize_board,
     after |-> initialize_board, score |-> 0, move |-> None,
     legal |-> TRUE, intact |-> TRUE]

\* What a human types, split at white space: one of the moves the prompt
\* lists, or one of a few other lines.
DigitTokens == {"0", "1", "2", "3", "4", "5", "6", "7"}

\* str(n) of a coordinate
StrOf(n) ==
    CASE n = 0 -> "0" [] n = 1 -> "1" [] n = 2 -> "2" [] n = 3 -> "3"
      [] n = 4 -> "4" [] n = 5 -> "5" [] n = 6 -> "6" [] n = 7 -> "7"

Malformed == {<<"3">>, <<"x", "1">>, <<"1", "2", "3">>}

OffTheList == {<<"3", "3">>, <<"3", "8">>}

HumanInputs(valid_moves) ==
    {<<StrOf(valid_moves[i][1]), StrOf(valid_moves[i][2])>> :
        i \in 1..Len(valid_moves)} \cup Malformed \cup OffTheList

IsNumeric(tok) == tok \in DigitTokens \cup {"8"}

\* int(tok) of a numeric token
IntOf(tok) ==
    CASE tok = "0" -> 0 [] tok = "1" -> 1 [] tok = "2" -> 2
      [] tok = "3" -> 3 [] tok = "4" -> 4 [] tok = "5" -> 5
      [] tok = "6" -> 6 [] tok = "7" -> 7 [] tok = "8" -> 8

\* row, col = map(int, tokens) raises ValueError unless there are exactly
\* two tokens and both are numeric
RaisesValueError(tokens) ==
    ~(Len(tokens) = 2 /\ IsNumeric(tokens[1]) /\ IsNumeric(tokens[2]))

Contains(valid_moves, m) == \E i \in 1..Len(valid_moves) : valid_moves[i] = m

\* the time limits of a game are such that the deadline of a search is found
\* exceeded at any of the first MaxClock + 1 reads of the clock, or never
Clocks == 0..MaxClock \cup {Never}

Init ==
    /\ \/ /\ board = initialize_board
          /\ current_player = "B"
          /\ applied = 0
       \/ /\ EndgameStart.legal
          /\ board = EndgameStart.board
          /\ current_player = EndgameStart.current_player
          /\ applied = TailFrom
    /\ player_types \in PlayerTypes \X PlayerTypes
    /\ eval_fns \in (EvalFuns \cup {NoEval}) \X (EvalFuns \cup {NoEval})
    /\ \A i \in 1..2 : (eval_fns[i] # NoEval) <=> (player_types[i] = "minimax")
    /\ pc = "turn"
    /\ move = None
    /\ inp = <<>>
    /\ search = NoSearch

\* lines 326-339 without the test of line 326: the game ends at every pass
AfterPass_always_over(b, player) == "over"

\* lines 326-340: after the turn has passed to player, the game is over when
\* player has no valid move either, otherwise the loop continues
AfterPass(b, player) ==
    IF get_valid_moves(b, player) = <<>> THEN "over" ELSE "turn"

\* lines 323-340: the side to move has no valid move
Pass ==
    /\ pc = "turn"
    /\ get_valid_moves(board, current_player) = <<>>
    /\ current_player' = Opponent(current_player)
    /\ pc' = AfterPass(board, Opponent(current_player))
    /\ UNCHANGED <<board, player_types, eval_fns, move, inp, applied, search>>

\* lines 378-380
ApplyChosen(b, mv) ==
    IF mv # None
    THEN /\ board' = apply_move(b, mv[1], mv[2], current_player)
         /\ current_player' = Opponent(current_player)
         /\ applied' = applied + 1
    ELSE /\ board' = b
         /\ UNCHANGED <<current_player, applied>>

\* lines 355-367 and 378-380: one input of the human whose turn it is.  pc is
\* "input" while the while loop of line 357 waits for another input.
HumanTurn ==
    /\ pc \in {"turn", "input"}
    /\ TypeOf(current_player) = "human"
    /\ Explored(applied)
    /\ LET valid_moves == get_valid_moves(board, current_player)
           old == IF pc = "turn" THEN None ELSE move
       IN  /\ valid_moves # <<>>
           /\ \E tokens \in HumanInputs(valid_moves) :
                LET mv == IF RaisesValueError(tokens) THEN old
                          ELSE <<IntOf(tokens[1]), IntOf(tokens[2])>>
                IN  /\ inp' = tokens
                    /\ move' = mv
                    /\ IF Contains(valid_moves, mv)
                       THEN /\ ApplyChosen(board, mv)
                            /\ pc' = "turn"
                       ELSE /\ pc' = "input"
                            /\ UNCHANGED <<board, current_player, applied>>
    /\ UNCHANGED <<player_types, eval_fns, search>>

\* lines 368-372 and 378-380
MinimaxTurn ==
    /\ pc = "turn"
    /\ TypeOf(current_player) = "minimax"
    /\ Explored(applied)
    /\ get_valid_moves(board, current_player) # <<>>
    /\ \E clock \in Clocks :
         \E res \in {computer_move(board, current_player, clock,
                                   EvalOf(current_player))} :
             /\ move' = res.move
             /\ search' = SearchRecord(SearchDepth, -Inf, Inf, TRUE,
                                       current_player, clock,
                                       EvalOf(current_player), board, res)
             /\ ApplyChosen(res.heap[1], res.move)
    /\ UNCHANGED <<player_types, eval_fns, pc, inp>>

\* lines 373-380
RandomTurn ==
    /\ pc = "turn"
    /\ TypeOf(current_player) = "random"
    /\ Explored(applied)
    /\ LET valid_moves == get_valid_moves(board, current_player)
       IN  /\ valid_moves # <<>>
           /\ \E i \in 1..Len(valid_moves) :
                /\ move' = valid_moves[i]
                /\ ApplyChosen(board, valid_moves[i])
    /\ UNCHANGED <<player_types, eval_fns, pc, inp, search>>

Next == Pass \/ HumanTurn \/ MinimaxTurn \/ RandomTurn

Spec == Init /\ [][Next]_vars

\* ------------------------------------------------------------------------
\* Calls of minimax on positions of the recorded game
\* ------------------------------------------------------------------------
SamplePlies == {k \in 0..Len(GameLine) : k % Stride = 0}

\* the alpha-beta windows of the calls: the window of the root call and
\* windows narrowed by earlier siblings
Windows == {<<-Inf, Inf>>, <<-Inf, 0>>, <<-2, 3>>}

InitSearch ==
    /\ applied \in SamplePlies
    /\ \E start \in {Replay(initialize_board, "B", GameLine, 1, applied)} :
          /\ start.legal
          /\ board = start.board
          /\ current_player = start.current_player
    /\ player_types = <<"minimax", "minimax">>
    /\ eval_fns \in EvalFuns \X EvalFuns
    /\ eval_fns[1] = eval_fns[2]
    /\ pc = "turn"
    /\ move = None
    /\ inp = <<>>
    /\ search = NoSearch

\* one call minimax(board, depth, alpha, beta, maximizing_player, player,
\* start_time, time_limit, eval_fun)
CallMinimax ==
    /\ ~search.called
    /\ \E depth \in 0..SearchDepth, w \in Windows, maximizing_player \in BOOLEAN,
          player \in {"B", "W"}, clock \in Clocks :
          \E res \in {minimax(<<board>>, 1, depth, w[1], w[2], maximizing_player,
                              player, clock, eval_fns[1])} :
             search' = SearchRecord(depth, w[1], w[2], maximizing_player, player,
                                    clock, eval_fns[1], board, res)
    /\ UNCHANGED <<board, current_player, player_types, eval_fns, pc, move,
                   inp, applied>>

NextSearch == CallMinimax

SpecSearch == InitSearch /\ [][NextSearch]_vars

\* ------------------------------------------------------------------------
\* Properties
\* ------------------------------------------------------------------------
Cells == Rows \X Rows

Sides == {"B", "W"}

Disks(b) == Count(b, "B") + Count(b, "W")

\* the cells other than (row, col) on which two boards differ
ChangedCells(b1, b2, row, col) ==
    {m \in Cells : m # <<row, col>> /\ b1[m[1]][m[2]] # b2[m[1]][m[2]]}

\* the unpruned minimax over the same tree: a leaf at depth 0 or when the side
\* to move has no valid move, the evaluation from the root side's view, and
\* the first move in generation order that achieves the best score
RECURSIVE FullMinimax(_, _, _, _, _)
RECURSIVE FullBest(_, _, _, _, _, _, _, _, _)

FullMinimax(b, depth, maximizing_player, player, eval_fun) ==
    LET side == IF maximizing_player THEN player ELSE Opponent(player)
        valid_moves == get_valid_moves(b, side)
    IN  IF depth = 0 \/ valid_moves = <<>>
        THEN [score |-> Eval(eval_fun, b, player), move |-> None]
        ELSE FullBest(b, depth, maximizing_player, player, eval_fun,
                      valid_moves, 1, IF maximizing_player THEN -Inf ELSE Inf,
                      None)

FullBest(b, depth, maximizing_player, player, eval_fun, valid_moves, i, best_score, best_move) ==
    IF i > Len(valid_moves) THEN [score |-> best_score, move |-> best_move]
    ELSE LET side == IF maximizing_player THEN player ELSE Opponent(player)
             child == FullMinimax(
                          apply_move(b, valid_moves[i][1], valid_moves[i][2], side),
                          depth - 1, ~maximizing_player, player, eval_fun)
             better == IF maximizing_player THEN child.score > best_score
                       ELSE child.score < best_score
         IN  FullBest(b, depth, maximizing_player, player, eval_fun,
                      valid_moves, i + 1,
                      IF better THEN child.score ELSE best_score,
                      IF better THEN valid_moves[i] ELSE best_move)

RootCall(s) ==
    /\ s.called
    /\ s.alpha = -Inf
    /\ s.beta = Inf
    /\ s.maximizing_player

\* C1: with no deadline expiry, the (score, move) of the root call of minimax
\* (full window, maximizing) equals the (score, move) of the unpruned minimax
\* over the same tree that takes the first best move in generation order
C1_PrunedEqualsFull ==
    (RootCall(search) /\ search.clock = Never) =>
        LET full == FullMinimax(search.before, search.depth, TRUE,
                                search.player, search.eval_fun)
        IN  /\ search.score = full.score
            /\ search.move = full.move

C1_Witness ==
    /\ RootCall(search)
    /\ search.clock = Never
    /\ search.depth = SearchDepth
    /\ search.move # None
    /\ applied > 0

\* C2: whenever computer_move is called for a side that has a valid move, it
\* returns one of the valid moves of that side and never None, at whatever
\* read of the clock the deadline is first found exceeded
C2_ComputerMoveReturnsValidMove ==
    (search.called /\ get_valid_moves(search.before, search.player) # <<>>) =>
        /\ search.move # None
        /\ Contains(get_valid_moves(search.before, search.player), search.move)

\* C3 as claimed: for every cell and both sides, is_valid_move is true if and
\* only if apply_move changes at least one cell other than (row, col)
C3_LegalIffChanges ==
    \A m \in Cells, player \in Sides :
        is_valid_move(board, m[1], m[2], player) <=>
            ChangedCells(board, apply_move(board, m[1], m[2], player),
                         m[1], m[2]) # {}

\* C3 as amended: on an empty cell is_valid_move is true if and only if
\* apply_move changes at least one cell other than (row, col); on an occupied
\* cell is_valid_move is false
C3_LegalIffChangesOnEmpty ==
    \A m \in Cells, player \in Sides :
        IF board[m[1]][m[2]] = "."
        THEN is_valid_move(board, m[1], m[2], player) <=>
                ChangedCells(board, apply_move(board, m[1], m[2], player),
                             m[1], m[2]) # {}
        ELSE ~is_valid_move(board, m[1], m[2], player)

\* a board reached by a move of the driver, with an occupied cell on which
\* apply_move would flip disks and an empty cell on which it flips none
C3_Witness ==
    /\ applied > 0
    /\ move # None
    /\ \E m \in Cells, player \in Sides :
          /\ board[m[1]][m[2]] # "."
          /\ ChangedCells(board, apply_move(board, m[1], m[2], player),
                          m[1], m[2]) # {}
    /\ \E m \in Cells, player \in Sides :
          /\ board[m[1]][m[2]] = "."
          /\ ~is_valid_move(board, m[1], m[2], player)
    /\ \E m \in Cells, player \in Sides : is_valid_move(board, m[1], m[2], player)

\* C4: the number of disks is 4 plus the number of moves applied, and
\* applying any valid move adds exactly one disk, empties no occupied cell and
\* fills no empty cell but the one played
C4_Conservation ==
    /\ Disks(board) = 4 + applied
    /\ \A m \in Cells, player \in Sides :
          is_valid_move(board, m[1], m[2], player) =>
             LET after == apply_move(board, m[1], m[2], player)
             IN  /\ Disks(after) = Disks(board) + 1
                 /\ after[m[1]][m[2]] = player
                 /\ \A x \in Cells :
                       /\ (board[x[1]][x[2]] # ".") => (after[x[1]][x[2]] # ".")
                       /\ (board[x[1]][x[2]] = "." /\ x # m)
                             => (after[x[1]][x[2]] = ".")

C4_Witness ==
    /\ applied = 2
    /\ Disks(board) = 6
    /\ Count(board, "B") = 3

\* the condition C5_PassRule puts on a step
C5_PassRule_Step ==
    /\ (pc = "turn" /\ get_valid_moves(board, current_player) = <<>>) =>
         /\ UNCHANGED <<board, move, inp, search, applied>>
         /\ current_player' = Opponent(current_player)
         /\ ((pc' = "over") <=>
               (get_valid_moves(board, Opponent(current_player)) = <<>>))
         /\ pc' \in {"over", "turn"}
    /\ (pc' = "over" /\ pc # "over") =>
         /\ get_valid_moves(board', "B") = <<>>
         /\ get_valid_moves(board', "W") = <<>>
    /\ (pc # "over" /\ get_valid_moves(board, current_player) # <<>>) =>
         pc' # "over"

\* C5: when the side to move has no valid move the turn passes to the
\* opponent with the board unchanged and no move requested; the game is over
\* after that pass exactly when the opponent has no valid move either, and the
\* driver never enters the terminal state while a side has a valid move
C5_PassRule == [][C5_PassRule_Step]_vars

\* the game over with empty cells left, after a turn was passed
C5_Witness ==
    /\ pc = "over"
    /\ Count(board, ".") > 0
    /\ applied > TailFrom

\* a human input that the driver must not apply
Rejected(tokens, b, player) ==
    \/ RaisesValueError(tokens)
    \/ ~OnBoard(IntOf(tokens[1]), IntOf(tokens[2]))
    \/ ~is_valid_move(b, IntOf(tokens[1]), IntOf(tokens[2]), player)

\* the condition C6_OnlyLegalMovesApplied puts on a step
C6_OnlyLegalMovesApplied_Step ==
    /\ (board' # board) =>
         /\ move' # None
         /\ Len(move') = 2
         /\ OnBoard(move'[1], move'[2])
         /\ is_valid_move(board, move'[1], move'[2], current_player)
         /\ board' = apply_move(board, move'[1], move'[2], current_player)
         /\ current_player' = Opponent(current_player)
    /\ (search' # search) => search'.legal
    /\ (/\ pc \in {"turn", "input"}
        /\ TypeOf(current_player) = "human"
        /\ get_valid_moves(board, current_player) # <<>>
        /\ Rejected(inp', board, current_player)) =>
           UNCHANGED <<board, current_player, applied>>

\* C6: a step of the driver that changes the board places, for the side to
\* move, a move that is valid on the board before the step; every apply_move
\* made inside a search places a valid move of the side it places it for; and
\* a human input that is malformed or not a valid move changes neither the
\* board nor the side to move
C6_OnlyLegalMovesApplied == [][C6_OnlyLegalMovesApplied_Step]_vars

\* a human has typed a malformed line after the minimax player has moved
C6_Witness ==
    /\ pc = "input"
    /\ inp \in Malformed
    /\ search.called
    /\ search.move # None
    /\ applied > 0

\* C7: a call of minimax returns None as its move exactly at a leaf (depth 0,
\* no valid move for the side to move, or the deadline found exceeded at the
\* entry check); the score of a leaf is eval_fun(board, player) for the root
\* side; the move of any other node is a valid move of the side to move
C7_LeafContract ==
    search.called =>
        LET side == IF search.maximizing_player THEN search.player
                    ELSE Opponent(search.player)
            valid_moves == get_valid_moves(search.before, side)
            leaf == \/ search.depth = 0
                    \/ valid_moves = <<>>
                    \/ search.clock = 0
        IN  /\ (search.move = None) <=> leaf
            /\ leaf => search.score =
                          Eval(search.eval_fun, search.before, search.player)
            /\ ~leaf => Contains(valid_moves, search.move)

\* a minimizing call that returned a move, and so was not a leaf
C7_Witness ==
    /\ search.called
    /\ ~search.maximizing_player
    /\ search.move # None
    /\ search.clock # Never

\* C8: on the board of initialize_board the valid moves of Black are
\* (2,3), (3,2), (4,5), (5,4) in this order, and applying any of them flips
\* exactly one White disk
C8_InitialMoves ==
    (applied = 0) =>
        /\ get_valid_moves(board, "B") =
              << <<2, 3>>, <<3, 2>>, <<4, 5>>, <<5, 4>> >>
        /\ \A m \in Cells :
              is_valid_move(board, m[1], m[2], "B") =>
                 LET after == apply_move(board, m[1], m[2], "B")
                     flipped == ChangedCells(board, after, m[1], m[2])
                 IN  /\ Cardinality(flipped) = 1
                     /\ \A x \in flipped : /\ board[x[1]][x[2]] = "W"
                                          /\ after[x[1]][x[2]] = "B"

\* Black has played one of the four moves and one White disk is left
C8_Witness ==
    /\ applied = 1
    /\ move \in {<<2, 3>>, <<3, 2>>, <<4, 5>>, <<5, 4>>}
    /\ Count(board, "W") = 1
    /\ Count(board, "B") = 4

\* C9: a search leaves the board it is given as it was: the board object of
\* the caller is unchanged when the call returns, and inside the search the
\* board of every node is unchanged after each of its children returns
C9_SearchLeavesBoard ==
    search.called =>
        /\ search.after = search.before
        /\ search.intact

\* a search that expanded children, cut short by the deadline, after which
\* the driver applied the move found
C9_Witness ==
    /\ search.called
    /\ search.move # None
    /\ search.clock \in 1..MaxClock
    /\ board # search.before
    /\ applied > 0

\* the condition C10_EveryIterationApplies puts on a step
C10_EveryIterationApplies_Step ==
    (/\ pc = "turn"
    /\ TypeOf("B") # "human"
    /\ TypeOf("W") # "human"
    /\ get_valid_moves(board, current_player) # <<>>) =>
       /\ applied' = applied + 1
       /\ current_player' = Opponent(current_player)
       /\ board' # board

\* C10: when neither side is human, every iteration of the loop in which the
\* side to move has a valid move applies one move and hands the turn to the
\* opponent
C10_EveryIterationApplies == [][C10_EveryIterationApplies_Step]_vars

====
